---- MODULE Spec2Model ----
(***************************************************************************)
(* A model of hash_utils.py (streamlit-hash-demo): the digest engine       *)
(* (hash_text, hash_file_chunked), the HMAC engine (hmac_text) and the     *)
(* comparator (compare_hashes), as they are called from app.py.            *)
(*                                                                         *)
(* Python values are modelled as follows.                                  *)
(*   - a str is a sequence of Unicode code points, a bytes object is a     *)
(*     sequence of numbers in 0..255 (so algorithm names, texts, keys and  *)
(*     hex digests are all sequences);                                     *)
(*   - the outcome of a call is a record: Ok(v) for "returns v",           *)
(*     Raise(e) for "raises an exception of class e";                      *)
(*   - a hashlib object is a record [name, acc, len]; the compression      *)
(*     function is a 16-bit multiplicative fold of the bytes fed so far,   *)
(*     which keeps what the claims depend on: the digest is a function of  *)
(*     the algorithm and of the byte sequence fed, in order.               *)
(***************************************************************************)
EXTENDS Integers, Sequences, FiniteSets, TLC

VARIABLES
    pc,          \* "idle" | "loop" (inside hash_file_chunked's while) | "done" | "raised"
    op,          \* the entry point that was called
    text,        \* the str argument: text, the stream's content, a
    key,         \* the second str argument: key, b
    algorithm,   \* the algorithm name as passed
    chunk_size,  \* hash_file_chunked's chunk_size
    callback,    \* "None" or "function"
    stream,      \* [kind |-> "bytes" | "text", data |-> the stream's content]
    pos,         \* the stream's read position
    h,           \* the hashlib accumulator
    total,       \* the local total
    chunk,       \* the chunk last returned by read(), as returned
    fed,         \* the chunks passed to h.update, in order
    cbLog,       \* the values progress_callback was invoked with, in order
    cbFails,     \* how many of these invocations raised
    reads,       \* how many read() calls were issued
    result       \* the outcome of the call

vars == <<pc, op, text, key, algorithm, chunk_size, callback, stream, pos, h,
          total, chunk, fed, cbLog, cbFails, reads, result>>

----------------------------------------------------------------------------
(* Bounds of the model. *)

MaxLen == 3

MaxChunk == 3

\* Code points of the texts: "a" (1 byte in UTF-8), "e-acute" (2 bytes) and
\* U+1F510, the padlock of app.py's title (4 bytes).
Alphabet == {97, 233, 128272}

RECURSIVE StringsOfLen(_)
StringsOfLen(n) ==
    IF n = 0 THEN {<<>>}
    ELSE {Append(s, c) : s \in StringsOfLen(n - 1), c \in Alphabet}

Strings == UNION {StringsOfLen(n) : n \in 0..MaxLen}

\* Keys of hmac_text.
Keys == {<<>>, <<99, 108, 97, 118, 101>>, <<233>>}

ChunkSizes == (0 - 1)..MaxChunk

----------------------------------------------------------------------------
(* Python values. *)

Ok(v) == [kind |-> "ok", value |-> v, exc |-> "None"]

Raise(e) == [kind |-> "raise", value |-> <<>>, exc |-> e]

NoResult == [kind |-> "none", value |-> <<>>, exc |-> "None"]

Min(a, b) == IF a < b THEN a ELSE b

\* str.lower() on ASCII letters.
lower(s) == [i \in DOMAIN s |-> IF s[i] \in 65..90 THEN s[i] + 32 ELSE s[i]]

MaxBytesPerChar == 4

\* str.encode('utf-8') of one code point.
EncodeChar(cp) ==
    IF cp < 128 THEN <<cp>>
    ELSE IF cp < 2048 THEN <<192 + (cp \div 64), 128 + (cp % 64)>>
    ELSE IF cp < 65536
         THEN <<224 + (cp \div 4096), 128 + ((cp \div 64) % 64), 128 + (cp % 64)>>
    ELSE <<240 + (cp \div 262144), 128 + ((cp \div 4096) % 64),
           128 + ((cp \div 64) % 64), 128 + (cp % 64)>>

RECURSIVE Encode(_)
Encode(s) == IF s = <<>> THEN <<>> ELSE EncodeChar(Head(s)) \o Encode(Tail(s))

\* isinstance(chunk, str) is decided by the stream that produced the chunk.
EncodeChunk(kind, c) == IF kind = "text" THEN Encode(c) ELSE c

----------------------------------------------------------------------------
(* hashlib. *)

sha256 == <<115, 104, 97, 50, 53, 54>>
sha1 == <<115, 104, 97, 49>>
sha512 == <<115, 104, 97, 53, 49, 50>>
blake2b == <<98, 108, 97, 107, 101, 50, 98>>
SHA256 == <<83, 72, 65, 50, 53, 54>>
md999 == <<109, 100, 57, 57, 57>>

DEFAULT_ALGOS == <<sha256, sha1, sha512, blake2b>>

Names == {sha256, sha1, sha512, blake2b, SHA256, md999}

algorithms_guaranteed == {sha256, sha1, sha512, blake2b}

algorithms_available == algorithms_guaranteed

IV(name) ==
    CASE name = sha256 -> 27145
      [] name = sha1 -> 26437
      [] name = sha512 -> 62396
      [] name = blake2b -> 51464

block_size(name) == IF name \in {sha512, blake2b} THEN 128 ELSE 64

\* hashlib.new(name): a fresh accumulator.
new(name) == [name |-> name, acc |-> IV(name), len |-> 0]

\* The compression of one byte into the 16-bit state.
Compress(acc, b) == (acc * 257 + b + 1) % 65521

\* The compression of data into acc, byte after byte, in order.
RECURSIVE Fold(_, _)
Fold(acc, data) ==
    IF data = <<>> THEN acc
    ELSE Fold(Compress(acc, Head(data)), Tail(data))

\* The same compression of data[lo..hi], for a whole block: it is evaluated by
\* halves to keep the evaluation shallow, the left half first (the test on
\* `left` makes it a value), then the right half into it.
RECURSIVE FoldRange(_, _, _, _)
FoldRange(acc, data, lo, hi) ==
    IF lo > hi THEN acc
    ELSE IF lo = hi THEN Compress(acc, data[lo])
    ELSE LET m == (lo + hi) \div 2
             left == FoldRange(acc, data, lo, m)
         IN  IF left >= 0 THEN FoldRange(left, data, m + 1, hi) ELSE left

\* Variant: the accumulator is created anew for every chunk.
update_fresh(hh, data) ==
    [hh EXCEPT !.acc = Fold(IV(hh.name), data), !.len = Len(data)]

\* h.update(data)
update(hh, data) ==
    [hh EXCEPT !.acc = Fold(hh.acc, data), !.len = hh.len + Len(data)]

HexDigit(d) == IF d < 10 THEN 48 + d ELSE 87 + d

\* h.digest()
digest(hh) == <<hh.acc \div 256, hh.acc % 256, hh.len % 256>>

RECURSIVE Hex(_)
Hex(bs) ==
    IF bs = <<>> THEN <<>>
    ELSE <<HexDigit(Head(bs) \div 16), HexDigit(Head(bs) % 16)>> \o Hex(Tail(bs))

\* h.hexdigest()
hexdigest(hh) == Hex(digest(hh))

\* hashlib.new(name) as an expression: the object, or ValueError("unsupported
\* hash type") for a name the provider does not know.
hashlib_new(name) ==
    IF name \in algorithms_available
    THEN Ok([type |-> "HASH", name |-> name])
    ELSE Raise("ValueError")

\* Variant: an unknown name falls back to sha256.
get_hasher_fallback(name) ==
    LET n == lower(name)
    IN  IF n \in algorithms_available THEN Ok(n) ELSE Ok(sha256)

\* _get_hasher(name): Ok(n) stands for the constructor of hashlib.new(n).
get_hasher(name) ==
    LET n == lower(name)
    IN  IF n \notin algorithms_available /\ n \notin algorithms_guaranteed
        THEN IF n = blake2b /\ blake2b \in algorithms_available
             THEN Ok(blake2b)
             ELSE Raise("ValueError")
        ELSE Ok(n)

\* hash_text(text, algorithm), with the default encoding 'utf-8'.
hash_text(t, alg) ==
    LET ctor == get_hasher(alg)
    IN  IF ctor.kind = "raise" THEN ctor
        ELSE Ok(hexdigest(update(new(ctor.value), Encode(t))))

----------------------------------------------------------------------------
(* hmac. *)

RECURSIVE Xor(_, _)
Xor(x, y) ==
    IF x = 0 /\ y = 0 THEN 0
    ELSE (((x % 2) + (y % 2)) % 2) + 2 * Xor(x \div 2, y \div 2)

\* The HMAC construction (RFC 2104) over the accumulator of `name`: what
\* hmac.new(k, msg, digestmod).hexdigest() computes once digestmod is resolved.
HMAC(k, msg, name) ==
    LET B == block_size(name)
        k0 == IF Len(k) > B THEN digest(update(new(name), k)) ELSE k
        kp == [i \in 1..B |-> IF i <= Len(k0) THEN k0[i] ELSE 0]
        ipad == [i \in 1..B |-> Xor(kp[i], 54)]
        opad == [i \in 1..B |-> Xor(kp[i], 92)]
        keyed(pad) == [name |-> name, len |-> B,
                       acc |-> FoldRange(IV(name), pad, 1, B)]
        inner == digest(update(keyed(ipad), msg))
    IN  hexdigest(update(keyed(opad), inner))

\* hmac.new(k, msg, digestmod).hexdigest(). digestmod is a name (str), a
\* constructor (callable) or a module with a new() function; anything else is
\* taken for such a module, and a hashlib object has no attribute 'new'.
hmac_new(k, msg, digestmod) ==
    IF digestmod.type \in {"str", "function"}
    THEN Ok(HMAC(k, msg, digestmod.name))
    ELSE Raise("AttributeError")

\* hmac_text(text, key, algorithm), with the default encoding 'utf-8'. The
\* local digestmod of lines 106-112 is never read; line 114 passes the object
\* hashlib.new(algo) as digestmod.
hmac_text(t, k, alg) ==
    LET algo == lower(alg)
        obj == hashlib_new(algo)
    IN  IF obj.kind = "raise" THEN obj
        ELSE hmac_new(Encode(k), Encode(t), obj.value)

\* hmac.compare_digest(a, b) on two str: both must be ASCII.
compare_digest(a, b) ==
    IF \E i \in DOMAIN a : a[i] > 127 THEN Raise("TypeError")
    ELSE IF \E i \in DOMAIN b : b[i] > 127 THEN Raise("TypeError")
    ELSE Ok(Len(a) = Len(b) /\ \A i \in DOMAIN a : a[i] = b[i])

compare_hashes(a, b) == compare_digest(a, b)

----------------------------------------------------------------------------
(* The stream and the read loop of hash_file_chunked. *)

\* Variant: read() without a size.
read_all(s, p, n) == SubSeq(s.data, p + 1, Len(s.data))

\* io.BytesIO / io.StringIO: read(n) from position p. A negative n reads to
\* the end, n = 0 reads nothing.
read(s, p, n) ==
    IF n < 0 THEN SubSeq(s.data, p + 1, Len(s.data))
    ELSE SubSeq(s.data, p + 1, Min(p + n, Len(s.data)))

\* Variant: `if chunk is None` (a stream never returns None at end-of-data).
is_None(c) == FALSE

\* `not chunk`
falsy(c) == Len(c) = 0

\* Variant: total = len(chunk).
assign_len(t, b) == Len(b)

\* total += len(chunk)
running_total(t, b) == t + Len(b)

\* Variant: the callback is invoked outside any try.
no_handler(exc) == exc

\* try: progress_callback(total) / except Exception: pass -- the exception
\* that leaves the statement when the callback raises exc ("None": returns).
except_Exception(exc) == IF exc = "Exception" THEN "None" ELSE exc

\* A cap on the read counter, above the reads any call needs (one per byte of
\* the longest content, and the one that finds end-of-data).
MaxReads == MaxBytesPerChar * (MaxLen + 1) + 2

NoHash == [name |-> <<>>, acc |-> 0, len |-> 0]

NoStream == [kind |-> "none", data |-> <<>>]

Init ==
    /\ pc = "idle"
    /\ op = "none"
    /\ text = <<>>
    /\ key = <<>>
    /\ algorithm = <<>>
    /\ chunk_size = 0
    /\ callback = "None"
    /\ stream = NoStream
    /\ pos = 0
    /\ h = NoHash
    /\ total = 0
    /\ chunk = <<>>
    /\ fed = <<>>
    /\ cbLog = <<>>
    /\ cbFails = 0
    /\ reads = 0
    /\ result = NoResult

Finish(r) ==
    /\ result' = r
    /\ pc' = IF r.kind = "raise" THEN "raised" ELSE "done"

Call_hash_text(t, alg) ==
    /\ pc = "idle"
    /\ op' = "hash_text"
    /\ text' = t
    /\ algorithm' = alg
    /\ Finish(hash_text(t, alg))
    /\ UNCHANGED <<key, chunk_size, callback, stream, pos, h, total, chunk,
                   fed, cbLog, cbFails, reads>>

Call_hmac_text(t, k, alg) ==
    /\ pc = "idle"
    /\ op' = "hmac_text"
    /\ text' = t
    /\ key' = k
    /\ algorithm' = alg
    /\ Finish(hmac_text(t, k, alg))
    /\ UNCHANGED <<chunk_size, callback, stream, pos, h, total, chunk,
                   fed, cbLog, cbFails, reads>>

Call_compare_hashes(a, b) ==
    /\ pc = "idle"
    /\ op' = "compare_hashes"
    /\ text' = a
    /\ key' = b
    /\ Finish(compare_hashes(a, b))
    /\ UNCHANGED <<algorithm, chunk_size, callback, stream, pos, h, total,
                   chunk, fed, cbLog, cbFails, reads>>

MakeStream(kind, t) ==
    [kind |-> kind, data |-> IF kind = "bytes" THEN Encode(t) ELSE t]

\* Variant: the first chunk is read before the algorithm is resolved.
hash_file_chunked_read_first(t, kind, alg, n, cb) ==
    LET s == MakeStream(kind, t)
        c == read(s, 0, n)
        ctor == get_hasher(alg)
    IN  /\ pc = "idle"
        /\ op' = "hash_file_chunked"
        /\ text' = t
        /\ stream' = s
        /\ algorithm' = alg
        /\ chunk_size' = n
        /\ callback' = cb
        /\ pos' = Len(c)
        /\ reads' = 1
        /\ chunk' = c
        /\ total' = 0
        /\ fed' = <<>>
        /\ cbLog' = <<>>
        /\ cbFails' = 0
        /\ h' = NoHash
        /\ Finish(IF ctor.kind = "raise" THEN ctor
                  ELSE Ok(hexdigest(update(new(ctor.value), EncodeChunk(kind, c)))))
        /\ UNCHANGED key

\* hash_file_chunked, up to the loop: file_obj is a stream of kind `kind`
\* holding the text t, positioned at its start.
hash_file_chunked(t, kind, alg, n, cb) ==
    LET ctor == get_hasher(alg)
    IN  /\ pc = "idle"
        /\ op' = "hash_file_chunked"
        /\ text' = t
        /\ stream' = MakeStream(kind, t)
        /\ algorithm' = alg
        /\ chunk_size' = n
        /\ callback' = cb
        /\ pos' = 0
        /\ reads' = 0
        /\ chunk' = <<>>
        /\ total' = 0
        /\ fed' = <<>>
        /\ cbLog' = <<>>
        /\ cbFails' = 0
        /\ IF ctor.kind = "raise"
           THEN /\ h' = NoHash
                /\ Finish(ctor)
           ELSE /\ h' = new(ctor.value)
                /\ pc' = "loop"
                /\ result' = NoResult
        /\ UNCHANGED key

\* One iteration of the while loop that does not break: read, encode,
\* update, count, report. The callback either returns (exc = "None") or raises
\* an error, an instance of Exception (exc = "Exception"); a function is always
\* truthy, so `if progress_callback` is `callback # "None"`.
Iterate ==
    LET c == read(stream, pos, chunk_size)
        b == EncodeChunk(stream.kind, c)
        t == running_total(total, b)
    IN  /\ pc = "loop"
        /\ reads < MaxReads
        /\ ~falsy(c)
        /\ chunk' = c
        /\ pos' = pos + Len(c)
        /\ reads' = reads + 1
        /\ h' = update(h, b)
        /\ fed' = Append(fed, b)
        /\ total' = t
        /\ IF callback = "None"
           THEN UNCHANGED <<cbLog, cbFails, pc, result>>
           ELSE \E exc \in {"None", "Exception"} :
                  LET escaped == except_Exception(exc)
                  IN  /\ cbLog' = Append(cbLog, t)
                      /\ cbFails' = cbFails + (IF exc = "None" THEN 0 ELSE 1)
                      /\ IF escaped = "None"
                         THEN UNCHANGED <<pc, result>>
                         ELSE Finish(Raise(escaped))
        /\ UNCHANGED <<op, text, key, algorithm, chunk_size, callback, stream>>

\* The read that returns an empty chunk: break, return h.hexdigest().
Break ==
    LET c == read(stream, pos, chunk_size)
    IN  /\ pc = "loop"
        /\ falsy(c)
        /\ chunk' = c
        /\ reads' = reads + 1
        /\ Finish(Ok(hexdigest(h)))
        /\ UNCHANGED <<op, text, key, algorithm, chunk_size, callback, stream,
                       pos, h, total, fed, cbLog, cbFails>>

\* The caller's choice of arguments (the guard pc = "idle" comes first so that
\* the arguments are enumerated in the idle state only).
HashText ==
    /\ pc = "idle"
    /\ \E t \in Strings, alg \in Names : Call_hash_text(t, alg)

HashFileChunked ==
    /\ pc = "idle"
    /\ \E t \in Strings, kind \in {"bytes", "text"}, alg \in Names,
          n \in ChunkSizes, cb \in {"None", "function"} :
            hash_file_chunked(t, kind, alg, n, cb)

HmacText ==
    /\ pc = "idle"
    /\ \E t \in Strings, k \in Keys, alg \in Names : Call_hmac_text(t, k, alg)

CompareHashes ==
    /\ pc = "idle"
    /\ \E a \in Strings, b \in Strings : Call_compare_hashes(a, b)

Next ==
    \/ HashText
    \/ HashFileChunked
    \/ Iterate
    \/ Break
    \/ HmacText
    \/ CompareHashes

\* A behaviour is one call: nothing is kept between calls.
Spec == Init /\ [][Next]_vars

\* The body of hash_file_chunked is synchronous code: once called, it runs.
FairSpec == Spec /\ WF_vars(Iterate) /\ WF_vars(Break)

----------------------------------------------------------------------------
(* The properties. *)

Finished == pc \in {"done", "raised"}

InChunked == op = "hash_file_chunked"

Recognized == lower(algorithm) \in algorithms_available

RECURSIVE Concat(_)
Concat(ss) == IF ss = <<>> THEN <<>> ELSE Head(ss) \o Concat(Tail(ss))

RECURSIVE SumLen(_, _)
SumLen(ss, i) == IF i = 0 THEN 0 ELSE SumLen(ss, i - 1) + Len(ss[i])

\* The read loop of hash_file_chunked without a callback, run to its end from
\* position p with accumulator hh.
RECURSIVE run_no_callback(_, _, _, _)
run_no_callback(s, p, n, hh) ==
    LET c == read(s, p, n)
    IN  IF falsy(c) THEN Ok(hexdigest(hh))
        ELSE run_no_callback(s, p + Len(c), n, update(hh, EncodeChunk(s.kind, c)))

\* C1: a finished hash_file_chunked over the byte stream of the UTF-8 bytes of
\* text, with chunk_size >= 1, has fed chunks whose concatenation is the stream
\* content, and returns what hash_text(text, algorithm) returns.
C1_ChunkedEqualsHashText ==
    (InChunked /\ pc = "done" /\ stream.kind = "bytes" /\ chunk_size >= 1)
        => /\ Concat(fed) = Encode(text)
           /\ result = hash_text(text, algorithm)

\* C1 witness: a byte stream hashed in several chunks, the last one partial.
C1_Witness ==
    /\ InChunked /\ pc = "done" /\ stream.kind = "bytes"
    /\ chunk_size = 2 /\ Len(fed) >= 2 /\ Len(fed[Len(fed)]) = 1
    /\ result.kind = "ok"

\* C2: once the callback has raised during a hash_file_chunked with
\* chunk_size >= 1, the call is not aborted, the callback keeps being invoked
\* for every chunk, and the call ends at end-of-data with the digest of the
\* run without a callback.
C2_CallbackErrorsDiscarded ==
    (InChunked /\ callback # "None" /\ chunk_size >= 1 /\ cbFails > 0)
        => /\ pc # "raised"
           /\ Len(cbLog) = Len(fed)
           /\ pc = "done" =>
                /\ pos = Len(stream.data)
                /\ result = run_no_callback(stream, 0, chunk_size,
                                            new(lower(algorithm)))

\* C2 witness: a finished call in which an early invocation of the callback
\* raised and later ones were still made.
C2_Witness ==
    /\ InChunked /\ pc = "done" /\ callback = "function" /\ chunk_size >= 1
    /\ cbFails >= 1 /\ cbFails < Len(cbLog) /\ result.kind = "ok"

\* C3: hash_text, hash_file_chunked and hmac_text called with a name the
\* provider does not recognize raise the unsupported-algorithm ValueError;
\* none returns a digest or enters the read loop.
C3_UnrecognizedAlgorithmFails ==
    (op \in {"hash_text", "hash_file_chunked", "hmac_text"} /\ ~Recognized)
        => pc = "raised" /\ result = Raise("ValueError")

\* C3 witness: hmac_text called with "md999" has raised.
C3_Witness ==
    op = "hmac_text" /\ algorithm = md999 /\ pc = "raised" /\ text # <<>>

\* C4 (as claimed): hmac_text over a supported algorithm returns normally with
\* the hexadecimal MAC of the standard HMAC construction.
C4_HmacReturnsStandardMac ==
    (op = "hmac_text" /\ Finished
            /\ \E i \in DOMAIN DEFAULT_ALGOS : algorithm = DEFAULT_ALGOS[i])
        => result = Ok(HMAC(Encode(key), Encode(text), algorithm))

\* C5 (as claimed): compare_hashes never raises and returns true iff its
\* arguments are the same string.
C5_CompareTotalAndExact ==
    (op = "compare_hashes" /\ Finished) => result = Ok(text = key)

\* C6: with a callback and chunk_size >= 1, the callback has been invoked once
\* per chunk fed, each chunk is non-empty, the i-th value reported is the byte
\* length of the first i chunks, the values strictly increase, and at the end
\* nothing was reported for an empty stream and otherwise the last value is
\* the byte length of the content.
C6_ProgressIsCumulative ==
    (InChunked /\ callback # "None" /\ chunk_size >= 1)
        => /\ Len(cbLog) = Len(fed)
           /\ \A i \in DOMAIN cbLog :
                /\ Len(fed[i]) > 0
                /\ cbLog[i] = SumLen(fed, i)
                /\ cbLog[i] > (IF i = 1 THEN 0 ELSE cbLog[i - 1])
           /\ pc = "done" =>
                /\ (cbLog = <<>>) <=> (text = <<>>)
                /\ cbLog # <<>> => cbLog[Len(cbLog)] = Len(Encode(text))

\* C6 witness: a finished call over a text stream whose callback was invoked
\* several times, the last time with more bytes than the text has characters.
C6_Witness ==
    /\ InChunked /\ pc = "done" /\ callback = "function" /\ chunk_size >= 1
    /\ stream.kind = "text" /\ Len(cbLog) >= 2
    /\ cbLog[Len(cbLog)] > Len(text)

\* C7: a hash_file_chunked with chunk_size >= 1 that entered its read loop
\* issues at most one read per item of the stream plus one, and eventually
\* returns a digest.
C7_Terminates ==
    /\ []((InChunked /\ chunk_size >= 1) => reads <= Len(stream.data) + 1)
    /\ (InChunked /\ pc = "loop" /\ chunk_size >= 1) ~> (pc = "done")

\* C7 witness: a call that returned after several reads, its callback having
\* raised every time.
C7_Witness ==
    /\ InChunked /\ pc = "done" /\ chunk_size >= 1 /\ reads >= 3
    /\ callback = "function" /\ cbFails = Len(cbLog)

\* C8 (as claimed): with chunk_size >= 1 every chunk fed to the accumulator is
\* at most chunk_size bytes long.
C8_FedAtMostChunkSizeBytes ==
    (InChunked /\ chunk_size >= 1)
        => \A i \in DOMAIN fed : Len(fed[i]) <= chunk_size

\* C8 (amended): with chunk_size >= 1 the chunk held has at most chunk_size
\* items (bytes or characters); a chunk fed from a byte stream is at most
\* chunk_size bytes long and a chunk fed from a text stream at most
\* 4 * chunk_size bytes long.
C8_FedBoundedByChunkSize ==
    (InChunked /\ chunk_size >= 1)
        => /\ Len(chunk) <= chunk_size
           /\ \A i \in DOMAIN fed :
                Len(fed[i]) <= (IF stream.kind = "text"
                                THEN MaxBytesPerChar * chunk_size
                                ELSE chunk_size)

\* C8 witness: a text chunk of chunk_size characters was fed as
\* 4 * chunk_size bytes.
C8_Witness ==
    /\ InChunked /\ chunk_size >= 1 /\ stream.kind = "text"
    /\ \E i \in DOMAIN fed : Len(fed[i]) = MaxBytesPerChar * chunk_size

\* C9 (as claimed): a hash_file_chunked with a non-positive chunk_size on a
\* non-empty stream ends with an error, never with a digest.
C9_NonPositiveChunkSizeFails ==
    (InChunked /\ Finished /\ chunk_size <= 0 /\ text # <<>>)
        => result.kind = "raise"

\* C10: a hash_file_chunked whose algorithm name cannot be resolved has
\* raised with no read issued, the stream position unchanged and the callback
\* never invoked.
C10_FailsFastBeforeReading ==
    (InChunked /\ get_hasher(algorithm).kind = "raise")
        => /\ pc = "raised"
           /\ reads = 0 /\ pos = 0 /\ chunk = <<>>
           /\ cbLog = <<>> /\ fed = <<>>

\* C10 witness: hash_file_chunked over a non-empty stream, with a callback,
\* has raised for "md999".
C10_Witness ==
    /\ InChunked /\ pc = "raised" /\ algorithm = md999
    /\ text # <<>> /\ callback = "function" /\ chunk_size >= 1

====
